---------------------------- MODULE Spec2Model ----------------------------
(***************************************************************************)
(* A model of the "clear" reflective editor (src/src/main.ts): the         *)
(* debounced generation scheduler, the highlight renderer over the         *)
(* editor's DOM, the sentence locator and range merger, and the response   *)
(* parser.  JavaScript strings are TLA+ strings; offsets are 0-based as in *)
(* the source.                                                             *)
(***************************************************************************)
EXTENDS Integers, Sequences, FiniteSets, TLC

VARIABLES
    surface,            \* child nodes of #editor (the DOM under the editable div)
    caret,              \* the selection's start boundary point
    thought,            \* main.ts:88
    isGenerating,       \* main.ts:89
    debounceTimer,      \* main.ts:90, the handle (0 = null)
    saveDebounceTimer,  \* main.ts:91, the handle (0 = null)
    engine,             \* main.ts:92/93: "loading", "ready" or "failed"
    applyingHighlights, \* main.ts:94
    timers,             \* the browser's armed timeouts: id -> "debounce" | "save"
    rafQueue,           \* callbacks queued by requestAnimationFrame
    requests,           \* inference requests issued and not yet settled
    stored,             \* localStorage[STORAGE_KEY], parsed
    sidebar,            \* what #sidebar-content / #sidebar-quote show
    error,              \* what #error shows ("" = hidden)
    loading,            \* what #loading shows ("" = hidden)
    lastEvent,          \* history: the user event or scheduler callback that ran last
    outcome,            \* history: what the last call of triggerThought did
    hist,               \* history: counters since the last accepted text change
    used,               \* history: user edits and manual triggers of the run so far
    fin,                \* input of the pure-function specifications
    fout                \* output of the pure-function specifications

vars == <<surface, caret, thought, isGenerating, debounceTimer, saveDebounceTimer,
          engine, applyingHighlights, timers, rafQueue, requests, stored, sidebar,
          error, loading, lastEvent, outcome, hist, used, fin, fout>>

(***************************************************************************)
(* Program constants.                                                      *)
(***************************************************************************)
MIN_TEXT_LENGTH == 20

FALLBACK_HIGHLIGHT_LEN == 50

DefaultQuestion == "What stands out to you in what you wrote?"

DefaultError == "Something went wrong. Try again."

(***************************************************************************)
(* JavaScript string primitives.                                           *)
(***************************************************************************)
Max(a, b) == IF a >= b THEN a ELSE b

Min(a, b) == IF a <= b THEN a ELSE b

\* s[i]
At(s, i) == SubSeq(s, i + 1, i + 1)

\* s.slice(a, b) for 0 <= a, b
Slice(s, a, b) == SubSeq(s, a + 1, Min(b, Len(s)))

\* /\s/.test(c)
IsSpace(c) == c \in {" ", "\t", "\n", "\r", "\f"}

RECURSIVE TrimStart(_)
TrimStart(s) ==
    IF s # "" /\ IsSpace(At(s, 0)) THEN TrimStart(Slice(s, 1, Len(s))) ELSE s

RECURSIVE TrimEnd(_)
TrimEnd(s) ==
    IF s # "" /\ IsSpace(At(s, Len(s) - 1)) THEN TrimEnd(Slice(s, 0, Len(s) - 1)) ELSE s

\* s.trim()
Trim(s) == TrimEnd(TrimStart(s))

RECURSIVE IndexFrom(_, _, _)
IndexFrom(h, n, i) ==
    IF i + Len(n) > Len(h) THEN -1
    ELSE IF Slice(h, i, i + Len(n)) = n THEN i
    ELSE IndexFrom(h, n, i + 1)

\* h.indexOf(n): the leftmost occurrence, or -1
IndexOf(h, n) == IndexFrom(h, n, 0)

\* The least index from i on whose character is in cs, Len(s) when none.
NextIn(s, i, cs) ==
    LET hits == {k \in i..(Len(s) - 1) : At(s, k) \in cs}
    IN  IF hits = {} THEN Max(i, Len(s)) ELSE CHOOSE k \in hits : \A m \in hits : k <= m

\* s.split(/\s+/).filter(Boolean)
RECURSIVE SplitWords(_, _, _)
SplitWords(s, cur, acc) ==
    IF s = "" THEN (IF cur = "" THEN acc ELSE Append(acc, cur))
    ELSE IF IsSpace(At(s, 0))
         THEN SplitWords(Slice(s, 1, Len(s)), "", IF cur = "" THEN acc ELSE Append(acc, cur))
         ELSE SplitWords(Slice(s, 1, Len(s)), cur \o At(s, 0), acc)

Words(s) == SplitWords(s, "", <<>>)

\* words.join(" ")
RECURSIVE JoinWords(_)
JoinWords(ws) ==
    IF ws = <<>> THEN ""
    ELSE IF Len(ws) = 1 THEN ws[1]
    ELSE ws[1] \o " " \o JoinWords(Tail(ws))

(***************************************************************************)
(* Text normalizer and sentence locator.                                   *)
(***************************************************************************)
\* s.replace(/\r\n?/g, "\n")
RECURSIVE ReplaceCR(_)
ReplaceCR(s) ==
    IF s = "" THEN ""
    ELSE IF At(s, 0) = "\r"
         THEN IF Len(s) >= 2 /\ At(s, 1) = "\n"
              THEN "\n" \o ReplaceCR(Slice(s, 2, Len(s)))
              ELSE "\n" \o ReplaceCR(Slice(s, 1, Len(s)))
         ELSE At(s, 0) \o ReplaceCR(Slice(s, 1, Len(s)))

\* s.replace(/\s+/g, " ")
RECURSIVE CollapseWs(_, _)
CollapseWs(s, lastWasSpace) ==
    IF s = "" THEN ""
    ELSE IF IsSpace(At(s, 0))
         THEN (IF lastWasSpace THEN "" ELSE " ") \o CollapseWs(Slice(s, 1, Len(s)), TRUE)
         ELSE At(s, 0) \o CollapseWs(Slice(s, 1, Len(s)), FALSE)

normalizeForMatch(s) == Trim(CollapseWs(ReplaceCR(s), FALSE))

IsPunct(c) == c \in {".", ",", ";", ":", "!", "?"}

\* s.replace(/[.,;:!?]+$/, "")
RECURSIVE DropTrailingPunct(_)
DropTrailingPunct(s) ==
    IF s # "" /\ IsPunct(At(s, Len(s) - 1))
    THEN DropTrailingPunct(Slice(s, 0, Len(s) - 1))
    ELSE s

stripTrailingPunctuation(s) == Trim(DropTrailingPunct(s))

\* The class of stripQuotes: whitespace, the straight quotes, and the curly
\* quotes and guillemets, for which "^" stands (a TLA+ string is ASCII).
IsQuoteOrSpace(c) == IsSpace(c) \/ c \in {"\"", "'", "^"}

RECURSIVE DropLeadingQuotes(_)
DropLeadingQuotes(s) ==
    IF s # "" /\ IsQuoteOrSpace(At(s, 0))
    THEN DropLeadingQuotes(Slice(s, 1, Len(s)))
    ELSE s

RECURSIVE DropTrailingQuotes(_)
DropTrailingQuotes(s) ==
    IF s # "" /\ IsQuoteOrSpace(At(s, Len(s) - 1))
    THEN DropTrailingQuotes(Slice(s, 0, Len(s) - 1))
    ELSE s

stripQuotes(s) == Trim(DropTrailingQuotes(DropLeadingQuotes(s)))

RECURSIVE NormLoop(_, _, _, _)
NormLoop(text, i, lastWasSpace, acc) ==
    IF i >= Len(text) THEN acc
    ELSE IF IsSpace(At(text, i))
         THEN NormLoop(text, i + 1, TRUE,
                       IF lastWasSpace THEN acc
                       ELSE [normalized |-> acc.normalized \o " ",
                             origStart |-> Append(acc.origStart, i)])
         ELSE NormLoop(text, i + 1, FALSE,
                       [normalized |-> acc.normalized \o At(text, i),
                        origStart |-> Append(acc.origStart, i)])

buildNormalizedMap(text) ==
    NormLoop(text, 0, FALSE, [normalized |-> "", origStart |-> <<>>])

\* A range is <<start, end>>; NoRange stands for null.
NoRange == <<-1, -1>>

\* One candidate of the word-prefix loop: the phrase of the first k words.
PhraseHit(words, k, normalized) ==
    LET phrase == JoinWords(SubSeq(words, 1, k))
        idx1 == IndexOf(normalized, phrase)
        noPunct == stripTrailingPunctuation(phrase)
        idx == IF idx1 < 0 /\ noPunct # "" THEN IndexOf(normalized, noPunct) ELSE idx1
        matchLen == IF idx1 < 0 /\ noPunct # "" THEN Len(noPunct) ELSE Len(phrase)
    IN  [idx |-> idx, matchLen |-> matchLen]

RECURSIVE PhraseLoop(_, _, _, _)
PhraseLoop(words, k, normalized, origStart) ==
    IF k < 1 THEN NoRange
    ELSE LET h == PhraseHit(words, k, normalized)
             endNorm == h.idx + h.matchLen
         IN  IF h.idx >= 0 /\ h.matchLen > 0 /\ endNorm <= Len(origStart)
             THEN <<origStart[h.idx + 1], origStart[endNorm] + 1>>
             ELSE PhraseLoop(words, k - 1, normalized, origStart)

findLongestPhraseInText(sentence, normalized, origStart) ==
    LET words == Words(sentence)
    IN  IF Len(words) = 0 THEN NoRange
        ELSE PhraseLoop(words, Len(words), normalized, origStart)

RECURSIVE TierLoop(_, _, _)
\* The tiers of findSentenceRange: each candidate in turn, an empty one
\* passed over, until one occurs in the normalized text.
TierLoop(normalized, candidates, k) ==
    IF k > Len(candidates) THEN [idx |-> -1, matchLen |-> 0]
    ELSE IF candidates[k] # "" /\ IndexOf(normalized, candidates[k]) >= 0
         THEN [idx |-> IndexOf(normalized, candidates[k]), matchLen |-> Len(candidates[k])]
         ELSE TierLoop(normalized, candidates, k + 1)

\* A faulty variant of RangeOfHit: the indices in the normalized text are
\* returned as they are, not mapped back to the original text.
RangeOfHitUnmapped(raw, m, hit) ==
    IF hit.idx < 0 THEN findLongestPhraseInText(raw, m.normalized, m.origStart)
    ELSE IF hit.idx + hit.matchLen > Len(m.origStart) THEN NoRange
    ELSE <<hit.idx, hit.idx + hit.matchLen>>

\* The end of findSentenceRange, once the tiers have given hit.
RangeOfHit(raw, m, hit) ==
    IF hit.idx < 0 THEN findLongestPhraseInText(raw, m.normalized, m.origStart)
    ELSE IF hit.idx + hit.matchLen > Len(m.origStart) THEN NoRange
    ELSE <<m.origStart[hit.idx + 1], m.origStart[hit.idx + hit.matchLen] + 1>>

\* findSentenceRange from its second statement on, raw being the
\* normalized sentence and m the normalized map of the text.
LocateNormalized(raw, m) ==
    IF raw = "" THEN NoRange
    ELSE IF Len(m.origStart) = 0 THEN NoRange
    ELSE RangeOfHit(raw, m,
                    TierLoop(m.normalized,
                             <<raw, stripTrailingPunctuation(raw), stripQuotes(raw),
                               stripTrailingPunctuation(stripQuotes(raw))>>,
                             1))

findSentenceRange(text, sentence) ==
    LocateNormalized(normalizeForMatch(sentence), buildNormalizedMap(text))

(***************************************************************************)
(* Range merger.                                                           *)
(***************************************************************************)
\* Insertion into a list sorted by start; equal starts keep their order, as
\* Array.prototype.sort is stable.
RECURSIVE InsertByStart(_, _)
InsertByStart(sorted, r) ==
    IF sorted = <<>> THEN <<r>>
    ELSE IF r[1] < Head(sorted)[1] THEN <<r>> \o sorted
    ELSE <<Head(sorted)>> \o InsertByStart(Tail(sorted), r)

RECURSIVE SortByStartFrom(_, _)
SortByStartFrom(ranges, acc) ==
    IF ranges = <<>> THEN acc
    ELSE SortByStartFrom(Tail(ranges), InsertByStart(acc, Head(ranges)))

\* ranges.sort((a, b) => a[0] - b[0])
SortByStart(ranges) == SortByStartFrom(ranges, <<>>)

\* A faulty variant of MergeStep: the coalesced range takes the end of the
\* later range instead of the greater end.
MergeStepLastEnd(merged, r) ==
    IF Len(merged) > 0 /\ r[1] <= merged[Len(merged)][2]
    THEN [merged EXCEPT ![Len(merged)] = <<@[1], r[2]>>]
    ELSE Append(merged, r)

\* One iteration of the merge loop.
MergeStep(merged, r) ==
    IF Len(merged) > 0 /\ r[1] <= merged[Len(merged)][2]
    THEN [merged EXCEPT ![Len(merged)] = <<@[1], Max(@[2], r[2])>>]
    ELSE Append(merged, r)

RECURSIVE MergeLoop(_, _)
MergeLoop(ranges, merged) ==
    IF ranges = <<>> THEN merged
    ELSE MergeLoop(Tail(ranges), MergeStep(merged, Head(ranges)))

\* The tail of findRanges: sort, then coalesce.
mergeRanges(ranges) == MergeLoop(SortByStart(ranges), <<>>)

(***************************************************************************)
(* findRanges: locate every sentence, fall back to a first-word anchor,    *)
(* merge.                                                                  *)
(***************************************************************************)
\* A located range as a list of one, null as the empty list.
AsList(range) == IF range = NoRange THEN <<>> ELSE <<range>>

\* One iteration of the first loop of findRanges, on the trimmed sentence.
LocateOne(text, trimmed) ==
    IF trimmed = "" THEN <<>> ELSE AsList(findSentenceRange(text, trimmed))

RECURSIVE LocateAll(_, _)
LocateAll(text, sentences) ==
    IF sentences = <<>> THEN <<>>
    ELSE LocateOne(text, Trim(Head(sentences))) \o LocateAll(text, Tail(sentences))

RECURSIVE FirstWordAnchor(_, _)
FirstWordAnchor(text, words) ==
    IF words = <<>> THEN <<>>
    ELSE LET clean == DropTrailingPunct(Head(words))
             i == IndexOf(text, clean)
         IN  IF Len(Head(words)) <= 2 \/ Len(clean) < 3
             THEN FirstWordAnchor(text, Tail(words))
             ELSE IF i >= 0 THEN <<<<i, i + Len(clean)>>>>
             ELSE FirstWordAnchor(text, Tail(words))

\* The first-word fallback of findRanges, ranges being what the first loop
\* has located.
OrAnchor(ranges, text, sentences) ==
    IF ranges = <<>> /\ Len(Trim(text)) > 0 /\ Len(sentences) > 0
    THEN FirstWordAnchor(text, Words(Trim(sentences[1])))
    ELSE ranges

locatedRanges(text, sentences) == OrAnchor(LocateAll(text, sentences), text, sentences)

findRanges(text, sentences) == mergeRanges(locatedRanges(text, sentences))

(***************************************************************************)
(* The editor's DOM.  A node is a Text node or a span.highlight element;   *)
(* `surface` is the list of #editor's children.  A boundary point is a     *)
(* container (the path of 1-based child indices from #editor, <<>> being   *)
(* #editor itself) and an offset (a character offset in a Text node, a     *)
(* child index in an element), as in the DOM standard's ranges.            *)
(***************************************************************************)
TextNode(d) == [kind |-> "text", data |-> d, kids |-> <<>>]

SpanNode(k) == [kind |-> "span", data |-> "", kids |-> k]

BP(p, o) == [path |-> p, off |-> o]

\* No selection (sel.rangeCount = 0), and the null of getTextNodePosition.
NoBP == BP(<<0>>, 0)

RECURSIVE KidsText(_)
\* node.textContent of an element with these children
KidsText(kids) ==
    IF kids = <<>> THEN ""
    ELSE (IF Head(kids).kind = "text" THEN Head(kids).data ELSE KidsText(Head(kids).kids))
         \o KidsText(Tail(kids))

\* editor.innerText; the surface holds no block element or <br>, so it is
\* the text of the Text nodes in document order.
innerText(kids) == KidsText(kids)

RECURSIVE TextNodesFrom(_, _, _)
\* The Text nodes below an element in document order, as <<path, data>>:
\* what TreeWalker.nextNode() yields under NodeFilter.SHOW_TEXT.
TextNodesFrom(kids, prefix, i) ==
    IF i > Len(kids) THEN <<>>
    ELSE (IF kids[i].kind = "text" THEN <<[path |-> Append(prefix, i), data |-> kids[i].data]>>
          ELSE TextNodesFrom(kids[i].kids, Append(prefix, i), 1))
         \o TextNodesFrom(kids, prefix, i + 1)

TextNodes(kids) == TextNodesFrom(kids, <<>>, 1)

\* The nodes the three offset walks visit: walker.currentNode is the
\* root first (createTreeWalker sets the walker's current node to its root),
\* whose textContent is the whole text, then every Text node.
WalkNodes(kids) == <<[path |-> <<>>, data |-> KidsText(kids)]>> \o TextNodes(kids)

RECURSIVE PositionLoop(_, _, _, _)
PositionLoop(nodes, i, count, charIndex) ==
    IF i > Len(nodes) THEN NoBP
    ELSE IF count + Len(nodes[i].data) > charIndex
         THEN BP(nodes[i].path, charIndex - count)
         ELSE PositionLoop(nodes, i + 1, count + Len(nodes[i].data), charIndex)

getTextNodePosition(kids, charIndex) == PositionLoop(WalkNodes(kids), 1, 0, charIndex)

RECURSIVE CursorLoop(_, _, _, _)
CursorLoop(nodes, i, offset, c) ==
    IF i > Len(nodes) THEN offset
    ELSE IF nodes[i].path = c.path
         THEN offset + Min(c.off, Len(nodes[i].data))
         ELSE CursorLoop(nodes, i + 1, offset + Len(nodes[i].data), c)

getCursorOffset(kids, c) ==
    IF c = NoBP THEN 0 ELSE CursorLoop(WalkNodes(kids), 1, 0, c)

\* Range.setStart / setEnd throw IndexSizeError when the offset exceeds the
\* container's length; only #editor is ever given with a child index.
OffsetInBounds(kids, bp) == bp.path # <<>> \/ bp.off <= Len(kids)

(***************************************************************************)
(* Range.surroundContents(span) and its fallback (extractContents,         *)
(* appendChild, insertNode), on the ranges applyHighlights builds.  A      *)
(* state of the surface is [kids, caret]; the caret is a live range and    *)
(* moves as the DOM standard's remove, insert, split and replace-data      *)
(* steps say.                                                              *)
(***************************************************************************)
RECURSIVE KidsAt(_, _)
KidsAt(kids, q) == IF q = <<>> THEN kids ELSE KidsAt(kids[q[1]].kids, Tail(q))

RECURSIVE ReplaceKids(_, _, _)
ReplaceKids(kids, q, newKids) ==
    IF q = <<>> THEN newKids
    ELSE [kids EXCEPT ![q[1]] = SpanNode(ReplaceKids(@.kids, Tail(q), newKids))]

IsPrefix(q, p) == Len(q) <= Len(p) /\ SubSeq(p, 1, Len(q)) = q

\* Both boundary points in #editor, children s+1..e wholly selected: they
\* move into the new span, which takes their place.
WrapChildren(st, s, e) ==
    LET kids == st.kids
        c == st.caret
        m == e - s
        moved == IF c = NoBP THEN c
                 ELSE IF c.path = <<>>
                      THEN BP(<<>>, IF c.off <= s THEN c.off
                                    ELSE IF c.off <= e THEN s ELSE c.off - m)
                 ELSE IF c.path[1] <= s THEN c
                 ELSE IF c.path[1] <= e THEN BP(<<>>, s)
                 ELSE BP(<<c.path[1] - m>> \o Tail(c.path), c.off)
        caret2 == IF moved = NoBP THEN moved
                  ELSE IF moved.path = <<>>
                       THEN BP(<<>>, IF moved.off > s THEN moved.off + 1 ELSE moved.off)
                  ELSE IF moved.path[1] > s
                       THEN BP(<<moved.path[1] + 1>> \o Tail(moved.path), moved.off)
                  ELSE moved
    IN  [kids |-> SubSeq(kids, 1, s) \o <<SpanNode(SubSeq(kids, s + 1, e))>>
                  \o SubSeq(kids, e + 1, Len(kids)),
         caret |-> caret2]

\* A range collapsed at (F, 0), F the Text node at path p: F is split at 0
\* (F keeps "", the new node takes the data) and the empty span goes
\* between the two.
InsertEmptySpanAt(st, p) ==
    LET kids == st.kids
        c == st.caret
        q == SubSeq(p, 1, Len(p) - 1)
        f == p[Len(p)]
        sib == KidsAt(kids, q)
        sib2 == SubSeq(sib, 1, f - 1)
                \o <<TextNode(""), SpanNode(<<>>), TextNode(sib[f].data)>>
                \o SubSeq(sib, f + 1, Len(sib))
        caret2 == IF c = NoBP THEN c
                  ELSE IF c.path = p
                       THEN (IF c.off > 0 THEN BP(Append(q, f + 2), c.off) ELSE c)
                  ELSE IF c.path = q
                       THEN (IF c.off >= f THEN BP(q, c.off + 2) ELSE c)
                  ELSE IF IsPrefix(q, c.path) /\ c.path[Len(q) + 1] > f
                       THEN BP(q \o <<c.path[Len(q) + 1] + 2>>
                                 \o SubSeq(c.path, Len(q) + 2, Len(c.path)), c.off)
                  ELSE c
    IN  [kids |-> ReplaceKids(kids, q, sib2), caret |-> caret2]

RECURSIVE ExtractTo(_, _, _)
\* "extract" of the range from (container, s) to (F, 0), F at the relative
\* path p with p[1] > s: frag is what goes to the fragment, rest what the
\* container keeps.  The children between are moved; the child that holds F
\* is partially contained and is cloned (a Text clone holds "").
ExtractTo(kids, s, p) ==
    LET j == p[1]
        contained == SubSeq(kids, s + 1, j - 1)
    IN  IF Len(p) = 1
        THEN [frag |-> Append(contained, TextNode("")),
              rest |-> SubSeq(kids, 1, s) \o SubSeq(kids, j, Len(kids))]
        ELSE LET sub == ExtractTo(kids[j].kids, 0, Tail(p))
             IN  [frag |-> Append(contained, SpanNode(sub.frag)),
                  rest |-> SubSeq(kids, 1, s) \o <<SpanNode(sub.rest)>>
                           \o SubSeq(kids, j + 1, Len(kids))]

RECURSIVE CaretExtract(_, _, _)
\* Where ExtractTo leaves a boundary point given relative to the container.
CaretExtract(c, s, p) ==
    LET j == p[1]
        m == j - 1 - s
    IN  IF c.path = <<>>
        THEN BP(<<>>, IF c.off <= s THEN c.off
                      ELSE IF c.off <= j - 1 THEN s ELSE c.off - m)
        ELSE IF c.path[1] <= s THEN c
        ELSE IF c.path[1] < j THEN BP(<<>>, s)
        ELSE IF c.path[1] > j \/ Len(p) = 1
             THEN BP(<<c.path[1] - m>> \o Tail(c.path), c.off)
        ELSE LET sub == CaretExtract(BP(Tail(c.path), c.off), 0, Tail(p))
             IN  BP(<<j - m>> \o sub.path, sub.off)

\* The range from (#editor, s) to (F, 0) with F in a later child: the
\* (empty) content between goes into the new span, inserted at index s.
WrapUpTo(st, s, p) ==
    LET x == ExtractTo(st.kids, s, p)
        c == st.caret
        moved == IF c = NoBP THEN c ELSE CaretExtract(c, s, p)
        caret2 == IF moved = NoBP THEN moved
                  ELSE IF moved.path = <<>>
                       THEN BP(<<>>, IF moved.off > s THEN moved.off + 1 ELSE moved.off)
                  ELSE IF moved.path[1] > s
                       THEN BP(<<moved.path[1] + 1>> \o Tail(moved.path), moved.off)
                  ELSE moved
    IN  [kids |-> SubSeq(x.rest, 1, s) \o <<SpanNode(x.frag)>>
                  \o SubSeq(x.rest, s + 1, Len(x.rest)),
         caret |-> caret2]

\* One iteration of the loop of applyHighlights over a range <<start, end>>,
\* from the two positions on.  startPos is always in #editor (start <
\* text.length); endPos is in #editor, or is (F, 0) with F the first
\* non-empty Text node (end = text.length).
SurroundRange(st, startPos, endPos) ==
    IF startPos = NoBP \/ endPos = NoBP THEN st
    ELSE IF ~OffsetInBounds(st.kids, startPos) \/ ~OffsetInBounds(st.kids, endPos)
         THEN st    \* IndexSizeError, caught: the range is skipped
    ELSE IF startPos.path # <<>> THEN st
    ELSE IF endPos.path = <<>>
         THEN (IF endPos.off > startPos.off
               THEN WrapChildren(st, startPos.off, endPos.off)
               ELSE st)
    ELSE IF endPos.path[1] <= startPos.off
         THEN InsertEmptySpanAt(st, endPos.path)   \* setEnd collapsed the range
    ELSE WrapUpTo(st, startPos.off, endPos.path)

HighlightRange(st, r) ==
    SurroundRange(st, getTextNodePosition(st.kids, r[1]), getTextNodePosition(st.kids, r[2]))

\* ranges.slice().sort((a, b) => b[0] - a[0])
RECURSIVE Reverse(_)
Reverse(sq) == IF sq = <<>> THEN <<>> ELSE Append(Reverse(Tail(sq)), Head(sq))

RECURSIVE HighlightLoop(_, _)
HighlightLoop(st, ranges) ==
    IF ranges = <<>> THEN st
    ELSE HighlightLoop(HighlightRange(st, Head(ranges)), Tail(ranges))

\* The ranges applyHighlights decorates: those of findRanges, else the
\* first FALLBACK_HIGHLIGHT_LEN characters of the trimmed text.
OrLeadingText(ranges, text) ==
    LET len == Min(FALLBACK_HIGHLIGHT_LEN, Len(Trim(text)))
        start == IndexOf(text, At(Trim(text), 0))
    IN  IF ranges # <<>> THEN ranges
        ELSE IF start >= 0 /\ len > 0 THEN <<<<start, start + len>>>>
        ELSE <<>>

highlightRanges(text, sentences) == OrLeadingText(findRanges(text, sentences), text)

\* A faulty variant of DecoratePass: the pass mutates the surface and never
\* sets the guard flag.
DecoratePassUnflagged(st, ranges) ==
    [ran |-> FALSE] @@ HighlightLoop(st, Reverse(SortByStart(ranges)))

\* The pass of applyHighlights over the ranges it has chosen: the flag is
\* set, the ranges are wrapped last first, the release is queued.
DecoratePass(st, ranges) ==
    IF ranges = <<>>
    THEN [kids |-> st.kids, caret |-> st.caret, ran |-> FALSE]
    ELSE [ran |-> TRUE] @@ HighlightLoop(st, Reverse(SortByStart(ranges)))

\* applyHighlights: [kids, caret, ran]; ran tells whether the pass set the
\* guard flag and queued its release.
applyHighlights(st, sentences) ==
    IF Trim(innerText(st.kids)) = "" \/ Len(sentences) = 0
    THEN [kids |-> st.kids, caret |-> st.caret, ran |-> FALSE]
    ELSE DecoratePass(st, highlightRanges(innerText(st.kids), sentences))

\* clearHighlights: every span.highlight is replaced by a Text node of its
\* textContent.  The outer spans come first in document order, so a nested
\* one is replaced inside a subtree that has already left the document.
clearHighlights(st) ==
    LET kids == st.kids
        c == st.caret
        caret2 == IF c = NoBP THEN c
                  ELSE IF c.path = <<>>
                       THEN (IF c.off >= 1 /\ kids[c.off].kind = "span"
                             THEN BP(<<>>, c.off - 1) ELSE c)
                  ELSE IF kids[c.path[1]].kind = "span" THEN BP(<<>>, c.path[1] - 1)
                  ELSE c
    IN  [kids |-> [i \in 1..Len(kids) |->
                      IF kids[i].kind = "span" THEN TextNode(KidsText(kids[i].kids))
                      ELSE kids[i]],
         caret |-> caret2]

HasHighlight(kids) == \E i \in 1..Len(kids) : kids[i].kind = "span"

(***************************************************************************)
(* JSON.parse, as far as the parser's inputs go: objects, arrays, strings  *)
(* with the two-character escapes, integers and the three literals.  A     *)
(* value is [t, s, items, keys]: t its type, s the text of a string,       *)
(* number or literal, items the elements of an array or the member values  *)
(* of an object, keys the member names.                                    *)
(***************************************************************************)
JVal(t, str, items, keys) == [t |-> t, s |-> str, items |-> items, keys |-> keys]

POk(pos, val) == [ok |-> TRUE, pos |-> pos, val |-> val]

PFail == [ok |-> FALSE, pos |-> 0, val |-> JVal("none", "", <<>>, <<>>)]

IsJsonWs(c) == c \in {" ", "\t", "\n", "\r"}

IsDigit(c) == c \in {"0", "1", "2", "3", "4", "5", "6", "7", "8", "9"}

RECURSIVE SkipWs(_, _)
SkipWs(s, i) == IF i < Len(s) /\ IsJsonWs(At(s, i)) THEN SkipWs(s, i + 1) ELSE i

\* The character an escape sequence \c stands for, "" when there is none.
Unescape(c) ==
    CASE c = "\"" -> "\""
      [] c = "\\" -> "\\"
      [] c = "/" -> "/"
      [] c = "n" -> "\n"
      [] c = "t" -> "\t"
      [] c = "r" -> "\r"
      [] c = "f" -> "\f"
      [] OTHER -> ""

RECURSIVE PStringBody(_, _, _)
\* i is past the opening quote; acc is the text read so far.  The plain
\* characters up to the next quote, backslash or control character are
\* taken in one step.
PStringBody(s, i, acc) ==
    LET j == NextIn(s, i, {"\"", "\\", "\n", "\t", "\r", "\f"})
        run == acc \o Slice(s, i, j)
    IN  IF j >= Len(s) THEN PFail
        ELSE IF At(s, j) = "\"" THEN POk(j + 1, JVal("str", run, <<>>, <<>>))
        ELSE IF At(s, j) = "\\"
             THEN IF j + 1 < Len(s) /\ Unescape(At(s, j + 1)) # ""
                  THEN PStringBody(s, j + 2, run \o Unescape(At(s, j + 1)))
                  ELSE PFail
        ELSE PFail

RECURSIVE PDigits(_, _)
PDigits(s, i) == IF i < Len(s) /\ IsDigit(At(s, i)) THEN PDigits(s, i + 1) ELSE i

PNumber(s, i) ==
    LET d == IF At(s, i) = "-" THEN i + 1 ELSE i
        e == PDigits(s, d)
    IN  IF e = d \/ (e > d + 1 /\ At(s, d) = "0") THEN PFail
        ELSE POk(e, JVal("num", Slice(s, i, e), <<>>, <<>>))

PLiteral(s, i, word) ==
    IF Slice(s, i, i + Len(word)) = word
    THEN POk(i + Len(word), JVal("lit", word, <<>>, <<>>))
    ELSE PFail

RECURSIVE PValue(_, _)
RECURSIVE PArrayItems(_, _, _)
RECURSIVE PMembers(_, _, _, _)
\* The grammar below is written one step per operator, each handing what it
\* has read to the next.

\* After the element v of an array: a comma and the next one, or the end.
AfterItem(s, v, j, acc) ==
    IF ~v.ok \/ j >= Len(s) THEN PFail
    ELSE IF At(s, j) = "," THEN PArrayItems(s, j + 1, Append(acc, v.val))
    ELSE IF At(s, j) = "]" THEN POk(j + 1, JVal("arr", "", Append(acc, v.val), <<>>))
    ELSE PFail

ItemParsed(s, v, acc) == AfterItem(s, v, SkipWs(s, v.pos), acc)

PArrayItems(s, i, acc) == ItemParsed(s, PValue(s, i), acc)

\* After the member k : v of an object: a comma and the next one, or the end.
AfterMember(s, k, v, j, keys, vals) ==
    IF ~v.ok \/ j >= Len(s) THEN PFail
    ELSE IF At(s, j) = ","
         THEN PMembers(s, j + 1, Append(keys, k.val.s), Append(vals, v.val))
    ELSE IF At(s, j) = "}"
         THEN POk(j + 1, JVal("obj", "", Append(vals, v.val), Append(keys, k.val.s)))
    ELSE PFail

MemberParsed(s, k, v, keys, vals) == AfterMember(s, k, v, SkipWs(s, v.pos), keys, vals)

\* After the name k of a member, c the index of the colon.
AfterKey(s, k, c, keys, vals) ==
    MemberParsed(s, k,
                 IF k.ok /\ c < Len(s) /\ At(s, c) = ":" THEN PValue(s, c + 1) ELSE PFail,
                 keys, vals)

KeyParsed(s, k, keys, vals) == AfterKey(s, k, SkipWs(s, k.pos), keys, vals)

MemberAt(s, k0, keys, vals) ==
    KeyParsed(s,
              IF k0 < Len(s) /\ At(s, k0) = "\"" THEN PStringBody(s, k0 + 1, "") ELSE PFail,
              keys, vals)

PMembers(s, i, keys, vals) == MemberAt(s, SkipWs(s, i), keys, vals)

\* The value that starts at i with the character c, n being the index of
\* the next character that is no whitespace.
ValueAt(s, i, c, n) ==
    IF c = "" THEN PFail
    ELSE IF c = "{"
         THEN (IF n < Len(s) /\ At(s, n) = "}"
               THEN POk(n + 1, JVal("obj", "", <<>>, <<>>))
               ELSE PMembers(s, i + 1, <<>>, <<>>))
    ELSE IF c = "["
         THEN (IF n < Len(s) /\ At(s, n) = "]"
               THEN POk(n + 1, JVal("arr", "", <<>>, <<>>))
               ELSE PArrayItems(s, i + 1, <<>>))
    ELSE IF c = "\"" THEN PStringBody(s, i + 1, "")
    ELSE IF c = "-" \/ IsDigit(c) THEN PNumber(s, i)
    ELSE IF c = "t" THEN PLiteral(s, i, "true")
    ELSE IF c = "f" THEN PLiteral(s, i, "false")
    ELSE IF c = "n" THEN PLiteral(s, i, "null")
    ELSE PFail

ValueFrom(s, i) == ValueAt(s, i, IF i < Len(s) THEN At(s, i) ELSE "", SkipWs(s, i + 1))

PValue(s, i0) == ValueFrom(s, SkipWs(s, i0))

\* JSON.parse(s): ok is FALSE where it throws SyntaxError.
\* A parsed value with nothing but whitespace after it.
WholeInput(s, r) == IF r.ok /\ SkipWs(s, r.pos) = Len(s) THEN r ELSE PFail

JSONParse(s) == WholeInput(s, PValue(s, 0))

RECURSIVE LastIndexOfKey(_, _, _)
LastIndexOfKey(keys, key, i) ==
    IF i = 0 THEN 0
    ELSE IF keys[i] = key THEN i
    ELSE LastIndexOfKey(keys, key, i - 1)

\* obj[key] of a parsed value; "none" stands for undefined.  A repeated
\* member name keeps its last value.
Member(val, key) ==
    LET i == IF val.t = "obj" THEN LastIndexOfKey(val.keys, key, Len(val.keys)) ELSE 0
    IN  IF i = 0 THEN JVal("none", "", <<>>, <<>>) ELSE val.items[i]

(***************************************************************************)
(* Response parser.                                                        *)
(***************************************************************************)
\* "~" stands for the backquote, which a TLA+ string cannot hold.
Fence == "~~~"

RECURSIVE WsRunEnd(_, _)
WsRunEnd(s, i) == IF i < Len(s) /\ IsSpace(At(s, i)) THEN WsRunEnd(s, i + 1) ELSE i

\* Where a match of /```json\s*|\s*```/ that starts at i ends, or -1.
FenceMatchEnd(s, i) ==
    IF Slice(s, i, i + Len(Fence) + 4) = Fence \o "json"
    THEN WsRunEnd(s, i + Len(Fence) + 4)
    ELSE LET w == WsRunEnd(s, i)
         IN  IF Slice(s, w, w + Len(Fence)) = Fence THEN w + Len(Fence) ELSE -1

RECURSIVE StripFences(_, _)
\* raw.replace(/```json\s*|\s*```/g, ""), from index i on: the text up to
\* the leftmost match is kept, the match dropped.
StripFences(s, i) ==
    LET hits == {k \in i..(Len(s) - 1) : FenceMatchEnd(s, k) >= 0}
    IN  IF hits = {} THEN Slice(s, i, Len(s))
        ELSE LET k == CHOOSE x \in hits : \A y \in hits : x <= y
             IN  Slice(s, i, k) \o StripFences(s, FenceMatchEnd(s, k))

RECURSIVE TrimmedStrings(_)
\* for (const s of arr) if (typeof s === "string" && s.trim()) push(s.trim())
TrimmedStrings(items) ==
    IF items = <<>> THEN <<>>
    ELSE (IF Head(items).t = "str" /\ Trim(Head(items).s) # ""
          THEN <<Trim(Head(items).s)>> ELSE <<>>)
         \o TrimmedStrings(Tail(items))

\* The two field updates both parse sites make from a parsed value.
TakeFields(acc, obj) ==
    LET q == Member(obj, "question")
        ss == Member(obj, "sentences")
    IN  [question |-> IF q.t = "str" /\ Trim(q.s) # "" THEN Trim(q.s) ELSE acc.question,
         sentences |-> IF ss.t = "arr" THEN acc.sentences \o TrimmedStrings(ss.items)
                       ELSE acc.sentences]

RECURSIVE ScanBraces(_, _, _, _, _)
RECURSIVE BraceAt(_, _, _, _, _)
\* The loop over str that slices every {...} span whose depth returns to 0;
\* the characters that are no brace change nothing and are stepped over.
ScanBraces(str, i0, depth, start, acc) == BraceAt(str, NextIn(str, i0, {"{", "}"}), depth, start, acc)

\* try { obj = JSON.parse(chunk); ... } catch { }
TakeChunk(acc, obj) == IF obj.ok THEN TakeFields(acc, obj.val) ELSE acc

\* The loop body at the brace at index i (i = Len(str): no brace is left).
BraceAt(str, i, depth, start, acc) ==
    IF i >= Len(str) THEN acc
    ELSE IF At(str, i) = "{"
         THEN ScanBraces(str, i + 1, depth + 1, IF depth = 0 THEN i ELSE start, acc)
    ELSE IF depth - 1 = 0 /\ start >= 0
         THEN ScanBraces(str, i + 1, 0, -1,
                         TakeChunk(acc, JSONParse(Slice(str, start, i + 1))))
    ELSE ScanBraces(str, i + 1, depth - 1, start, acc)

StartsWith(s, prefix) == Slice(s, 0, Len(prefix)) = prefix

\* The catch block of the whole-string parse.
FreeText(trimmed) ==
    IF trimmed # "" /\ ~StartsWith(trimmed, "{")
    THEN [question |-> trimmed, sentences |-> <<>>]
    ELSE [question |-> "", sentences |-> <<>>]

\* The try block of the whole-string parse; JSON.parse("null").question
\* throws TypeError inside it.
WholeString(str, whole) ==
    IF ~whole.ok \/ (whole.val.t = "lit" /\ whole.val.s = "null")
    THEN FreeText(Trim(str))
    ELSE TakeFields([question |-> "", sentences |-> <<>>], whole.val)

\* The second half of parseThoughtResponse, found being what the scan gave.
OrWholeString(str, found) ==
    IF found.question # "" \/ Len(found.sentences) # 0 THEN found
    ELSE WholeString(str, JSONParse(str))

ParseStripped(str) ==
    OrWholeString(str, ScanBraces(str, 0, 0, -1, [question |-> "", sentences |-> <<>>]))

parseThoughtResponse(raw) == ParseStripped(Trim(StripFences(raw, 0)))

(***************************************************************************)
(* Bounds and the inputs drawn by the scheduler's specification.           *)
(***************************************************************************)
\* User edits in a run.
MaxEdits == 2

\* Manual triggers in a run.
MaxClicks == 1

\* 22 characters, 14 once trimmed
TextPadded == "    I walked home.    "

TextLong == "I walked home. I felt relieved."

TextMore == "I walked home. I felt relieved. Why?"

\* What the user may turn the editor's text into.
Texts == {TextPadded, TextLong, TextMore}

ReplyJson == "{\"question\":\"Why?\",\"sentences\":[\"I\"]}"

ReplyText == "What now?"

\* What the inference service may answer.
Replies == {ReplyJson, ReplyText}

\* What a rejected request carries: an Error with a message, or a value
\* without one.
Errors == { [hasMessage |-> TRUE, message |-> "Network error"],
            [hasMessage |-> FALSE, message |-> ""] }

NoThought == [set |-> FALSE, question |-> "", sentences |-> <<>>]

NoStored == [set |-> FALSE, content |-> "", cursor |-> 0]

EmptySidebar == [question |-> "", quotes |-> <<>>]

\* Since the last accepted text change: manual triggers, timer fires and
\* requests issued, whether a manual trigger cancelled a pending timer, and
\* whether that text change itself replaced a pending timer (burst = 2).
NoHist == [clicks |-> 0, fires |-> 0, reqs |-> 0, cancelled |-> FALSE, burst |-> 0]

\* What localStorage may hold when the page opens.
InitStored == {NoStored, [set |-> TRUE, content |-> TextLong, cursor |-> 1]}

(***************************************************************************)
(* Caret and storage helpers.                                              *)
(***************************************************************************)
RECURSIVE SetCursorLoop(_, _, _, _, _)
SetCursorLoop(kids, nodes, i, offset, target) ==
    IF i > Len(nodes)
    THEN \* the fallback after the walk: the end of a last-child Text node
         IF offset > 0 /\ Len(kids) > 0 /\ kids[Len(kids)].kind = "text"
         THEN BP(<<Len(kids)>>, Len(kids[Len(kids)].data))
         ELSE NoBP
    ELSE IF offset + Len(nodes[i].data) >= target
         THEN BP(nodes[i].path, Min(target - offset, Len(nodes[i].data)))
         ELSE SetCursorLoop(kids, nodes, i + 1, offset + Len(nodes[i].data), target)

\* setCursorOffset: the caret afterwards.  setStart throws IndexSizeError
\* when #editor is given an offset past its child count, and the
\* selection is then left as it was.
setCursorOffset(kids, c, target) ==
    LET bp == SetCursorLoop(kids, WalkNodes(kids), 1, 0, target)
    IN  IF bp = NoBP \/ ~OffsetInBounds(kids, bp) THEN c ELSE bp

\* What saveToStorage leaves in localStorage.
saveToStorage(kids, c) ==
    LET text == innerText(kids)
    IN  IF text # ""
        THEN [set |-> TRUE, content |-> text,
              cursor |-> Min(getCursorOffset(kids, c), Len(text))]
        ELSE NoStored

\* loadFromStorage, on the parsed item (a legacy bare string is an item
\* with cursor 0).
loadFromStorage(item) ==
    IF ~item.set THEN NoStored
    ELSE [set |-> TRUE, content |-> item.content,
          cursor |-> IF item.cursor >= 0 THEN Min(item.cursor, Len(item.content)) ELSE 0]

\* A faulty variant of getEditorText: the text is not trimmed.
getEditorTextUntrimmed == innerText(surface)

getEditorText == Trim(innerText(surface))

\* A timer id is a pair: what the timer is for, and a number.  setTimeout
\* returns an id that no armed timer has; the caller overwrites the one
\* handle that may still hold the id of a timer cleared earlier.
RECURSIVE LeastFree(_, _)
LeastFree(taken, n) == IF n \in taken THEN LeastFree(taken, n + 1) ELSE n

FreshTimer(tm, kind) == LeastFree({x.id : x \in {y \in tm : y.kind = kind}}, 1)

\* clearTimeout(id), id a handle of the given kind
ClearTimeout(tm, kind, id) == {x \in tm : ~(x.kind = kind /\ x.id = id)}

(***************************************************************************)
(* Renderer glue.                                                          *)
(***************************************************************************)
\* renderThought for the thought th: [kids, caret, sidebar, ran].
renderThought(th, st) ==
    IF ~th.set
    THEN [sidebar |-> EmptySidebar, ran |-> FALSE] @@ clearHighlights(st)
    ELSE [sidebar |-> [question |-> th.question, quotes |-> th.sentences]]
         @@ (IF Len(th.sentences) > 0 THEN applyHighlights(st, th.sentences)
             ELSE [kids |-> st.kids, caret |-> st.caret, ran |-> FALSE])

\* The release of the guard flag that applyHighlights defers.
Unflag == [kind |-> "unflag", arg |-> 0]

SetCursor(c) == [kind |-> "setCursor", arg |-> c]

\* requestAnimationFrame(cb).  A callback queued twice for the same frame
\* with the same effect is kept once: running it again changes nothing.
Queue(q, cb) == IF \E i \in 1..Len(q) : q[i] = cb THEN q ELSE Append(q, cb)

(***************************************************************************)
(* Generation scheduler.                                                   *)
(***************************************************************************)
\* The handle names a timer that is still armed.
Live(handle) == handle # 0 /\ [id |-> handle, kind |-> "debounce"] \in timers

\* A faulty variant of triggerThought: the isGenerating gate is missing.
triggerThoughtUngated(dt, tm) ==
    LET t == getEditorText
    IN  IF Len(t) < MIN_TEXT_LENGTH \/ engine # "ready"
        THEN /\ debounceTimer' = dt
             /\ timers' = tm
             /\ outcome' = IF Len(t) < MIN_TEXT_LENGTH THEN "short" ELSE "noEngine"
             /\ UNCHANGED <<isGenerating, error, loading, requests>>
        ELSE /\ outcome' = "issued"
             /\ debounceTimer' = 0
             /\ timers' = IF dt # 0 THEN ClearTimeout(tm, "debounce", dt) ELSE tm
             /\ isGenerating' = TRUE
             /\ error' = ""
             /\ loading' = "Thinking..."
             /\ requests' = Append(requests, t)

\* triggerThought, entered with the debounce handle dt and the armed
\* timers tm its caller leaves.
triggerThought(dt, tm) ==
    LET t == getEditorText
    IN  IF Len(t) < MIN_TEXT_LENGTH \/ isGenerating \/ engine # "ready"
        THEN /\ debounceTimer' = dt
             /\ timers' = tm
             /\ outcome' = IF Len(t) < MIN_TEXT_LENGTH THEN "short"
                           ELSE IF isGenerating THEN "busy" ELSE "noEngine"
             /\ UNCHANGED <<isGenerating, error, loading, requests>>
        ELSE /\ outcome' = "issued"
             /\ debounceTimer' = 0
             /\ timers' = IF dt # 0 THEN ClearTimeout(tm, "debounce", dt) ELSE tm
             /\ isGenerating' = TRUE
             /\ error' = ""
             /\ loading' = "Thinking..."
             /\ requests' = Append(requests, t)

Issued == Len(requests') > Len(requests)

\* clearThought, r being what renderThought(null) leaves.
Cleared(r) ==
    /\ thought' = NoThought
    /\ surface' = r.kids
    /\ caret' = r.caret
    /\ sidebar' = r.sidebar

\* scheduleSave: the armed timers and the new handle.
SaveArmed ==
    LET tm1 == IF saveDebounceTimer # 0
               THEN ClearTimeout(timers, "save", saveDebounceTimer)
               ELSE timers
    IN  [timers |-> tm1 \cup {[id |-> FreshTimer(tm1, "save"), kind |-> "save"]},
         handle |-> FreshTimer(tm1, "save")]

\* A faulty variant of onTextInput: the pending debounce timer is cleared
\* and no new one is started.
onTextInputNoRearm(st) ==
    IF applyingHighlights
    THEN /\ surface' = st.kids
         /\ caret' = st.caret
         /\ lastEvent' = "inputIgnored"
         /\ outcome' = "none"
         /\ UNCHANGED <<thought, sidebar, debounceTimer, saveDebounceTimer, timers, hist>>
    ELSE /\ Cleared(renderThought(NoThought, st))
         /\ saveDebounceTimer' = SaveArmed.handle
         /\ debounceTimer' = debounceTimer
         /\ timers' = IF debounceTimer # 0
                      THEN ClearTimeout(SaveArmed.timers, "debounce", debounceTimer)
                      ELSE SaveArmed.timers
         /\ lastEvent' = "input"
         /\ outcome' = "none"
         /\ hist' = [NoHist EXCEPT !.burst = IF Live(debounceTimer) THEN 2 ELSE 1]

\* A faulty variant of onTextInput: the new debounce timer is started and
\* the pending one is left armed.
onTextInputNoClear(st) ==
    IF applyingHighlights
    THEN /\ surface' = st.kids
         /\ caret' = st.caret
         /\ lastEvent' = "inputIgnored"
         /\ outcome' = "none"
         /\ UNCHANGED <<thought, sidebar, debounceTimer, saveDebounceTimer, timers, hist>>
    ELSE /\ Cleared(renderThought(NoThought, st))
         /\ saveDebounceTimer' = SaveArmed.handle
         /\ debounceTimer' = FreshTimer(SaveArmed.timers, "debounce")
         /\ timers' = SaveArmed.timers
                       \cup {[id |-> FreshTimer(SaveArmed.timers, "debounce"), kind |-> "debounce"]}
         /\ lastEvent' = "input"
         /\ outcome' = "none"
         /\ hist' = [NoHist EXCEPT !.burst = IF Live(debounceTimer) THEN 2 ELSE 1]

\* onTextInput, run once the browser has applied the user's edit: st is
\* the surface after the edit.
onTextInput(st) ==
    IF applyingHighlights
    THEN /\ surface' = st.kids
         /\ caret' = st.caret
         /\ lastEvent' = "inputIgnored"
         /\ outcome' = "none"
         /\ UNCHANGED <<thought, sidebar, debounceTimer, saveDebounceTimer, timers, hist>>
    ELSE LET tm3 == IF debounceTimer # 0
                    THEN ClearTimeout(SaveArmed.timers, "debounce", debounceTimer)
                    ELSE SaveArmed.timers
             did == FreshTimer(tm3, "debounce")
         IN  /\ Cleared(renderThought(NoThought, st))
             /\ saveDebounceTimer' = SaveArmed.handle
             /\ debounceTimer' = did
             /\ timers' = tm3 \cup {[id |-> did, kind |-> "debounce"]}
             /\ lastEvent' = "input"
             /\ outcome' = "none"
             /\ hist' = [NoHist EXCEPT !.burst = IF Live(debounceTimer) THEN 2 ELSE 1]

RECURSIVE LastTextPath(_)
\* The path of the last Text node in document order, <<>> when the last
\* branch holds none.
LastTextPath(kids) ==
    IF kids = <<>> THEN <<>>
    ELSE IF kids[Len(kids)].kind = "text" THEN <<Len(kids)>>
    ELSE LET sub == LastTextPath(kids[Len(kids)].kids)
         IN  IF sub = <<>> THEN <<>> ELSE <<Len(kids)>> \o sub

RECURSIVE AppendData(_, _, _)
AppendData(kids, p, more) ==
    IF Len(p) = 1 THEN [kids EXCEPT ![p[1]] = TextNode(@.data \o more)]
    ELSE [kids EXCEPT ![p[1]] = SpanNode(AppendData(@.kids, Tail(p), more))]

\* The surface the browser leaves when the user turns the text into t.  When
\* t continues the present text, the user has typed at its end and the new
\* characters join the last Text node, highlighted or not; otherwise the
\* user has replaced everything (select all, then type or paste).
Edited(kids, t) ==
    LET old == innerText(kids)
        p == LastTextPath(kids)
    IN  IF old # "" /\ Len(old) < Len(t) /\ Slice(t, 0, Len(old)) = old /\ p # <<>>
        THEN [kids |-> AppendData(kids, p, Slice(t, Len(old), Len(t))),
              caret |-> BP(p, Len(KidsAt(kids, SubSeq(p, 1, Len(p) - 1))[p[Len(p)]].data)
                              + Len(t) - Len(old))]
        ELSE [kids |-> IF t = "" THEN <<>> ELSE <<TextNode(t)>>,
              caret |-> IF t = "" THEN BP(<<>>, 0) ELSE BP(<<1>>, Len(t))]

\* The user edits the text into t and the browser dispatches "input".
Edit(t) ==
    /\ used.edits < MaxEdits
    /\ t # innerText(surface)
    /\ onTextInput(Edited(surface, t))
    /\ used' = [used EXCEPT !.edits = @ + 1]
    /\ UNCHANGED <<isGenerating, engine, applyingHighlights, rafQueue, requests, stored,
                   error, loading, fin, fout>>

\* The "keydown" listener of initUI: the timer is cleared, the handle kept.
\* A keydown that finds no timer to clear changes nothing and is left out.
KeyDown ==
    /\ Live(debounceTimer)
    /\ timers' = ClearTimeout(timers, "debounce", debounceTimer)
    /\ lastEvent' = "keydown"
    /\ outcome' = "none"
    /\ UNCHANGED <<surface, caret, thought, isGenerating, debounceTimer, saveDebounceTimer,
                   engine, applyingHighlights, rafQueue, requests, stored, sidebar, error,
                   loading, hist, used, fin, fout>>

\* The counters of hist saturate at 2.
Bump(h, f) == [h EXCEPT ![f] = Min(@ + 1, 2)]

\* The callback onTextInput hands to setTimeout.
DebounceFire ==
    /\ \E x \in timers : x.kind = "debounce" /\ triggerThought(0, timers \ {x})
    /\ lastEvent' = "timer"
    /\ hist' = IF Issued THEN Bump(Bump(hist, "fires"), "reqs") ELSE Bump(hist, "fires")
    /\ UNCHANGED <<surface, caret, thought, saveDebounceTimer, engine, applyingHighlights,
                   rafQueue, stored, sidebar, used, fin, fout>>

\* A faulty variant of onGenAIClick: the pending debounce timer is not
\* cancelled before the trigger.
GenAIClickNoCancel ==
    /\ engine # "failed"
    /\ used.clicks < MaxClicks
    /\ used' = [used EXCEPT !.clicks = @ + 1]
    /\ triggerThought(debounceTimer, timers)
    /\ lastEvent' = "click"
    /\ hist' = LET h == [hist EXCEPT !.cancelled = Live(debounceTimer)]
               IN  IF Issued THEN Bump(Bump(h, "clicks"), "reqs") ELSE Bump(h, "clicks")
    /\ UNCHANGED <<surface, caret, thought, saveDebounceTimer, engine, applyingHighlights,
                   rafQueue, stored, sidebar, fin, fout>>

\* onGenAIClick; the button is disabled once the engine has failed to load.
GenAIClick ==
    /\ engine # "failed"
    /\ used.clicks < MaxClicks
    /\ used' = [used EXCEPT !.clicks = @ + 1]
    /\ triggerThought(0, IF debounceTimer # 0
                         THEN ClearTimeout(timers, "debounce", debounceTimer)
                         ELSE timers)
    /\ lastEvent' = "click"
    /\ hist' = LET h == [hist EXCEPT !.cancelled = Live(debounceTimer)]
               IN  IF Issued THEN Bump(Bump(h, "clicks"), "reqs") ELSE Bump(h, "clicks")
    /\ UNCHANGED <<surface, caret, thought, saveDebounceTimer, engine, applyingHighlights,
                   rafQueue, stored, sidebar, fin, fout>>

\* The callback scheduleSave hands to setTimeout.
SaveFire ==
    /\ \E x \in timers : x.kind = "save" /\ timers' = timers \ {x}
    /\ saveDebounceTimer' = 0
    /\ stored' = saveToStorage(surface, caret)
    /\ UNCHANGED <<surface, caret, thought, isGenerating, debounceTimer, engine,
                   applyingHighlights, rafQueue, requests, sidebar, error, loading,
                   lastEvent, outcome, hist, used, fin, fout>>

\* parseThoughtResponse on each answer the service may give.
parsedReplies == [raw \in Replies |-> parseThoughtResponse(raw)]

RemoveAt(sq, i) == SubSeq(sq, 1, i - 1) \o SubSeq(sq, i + 1, Len(sq))

\* The request resolves with raw: the .then and .finally callbacks.
\* The thought the .then callback makes of the parsed answer.
ThoughtOf(parsed) ==
    [set |-> TRUE,
     question |-> IF parsed.question # "" THEN parsed.question ELSE DefaultQuestion,
     sentences |-> parsed.sentences]

\* currentThought = th; renderThought(th), r being what it leaves.
Shown(th, r) ==
    /\ thought' = th
    /\ surface' = r.kids
    /\ caret' = r.caret
    /\ sidebar' = r.sidebar
    /\ applyingHighlights' = (applyingHighlights \/ r.ran)
    /\ rafQueue' = IF r.ran THEN Queue(rafQueue, Unflag) ELSE rafQueue

Answered(th) == Shown(th, renderThought(th, [kids |-> surface, caret |-> caret]))

Complete(raw) ==
    /\ \E i \in 1..Len(requests) : requests' = RemoveAt(requests, i)
    /\ Answered(ThoughtOf(parsedReplies[raw]))
    /\ isGenerating' = FALSE
    /\ loading' = ""
    /\ lastEvent' = "complete"
    /\ outcome' = "none"
    /\ UNCHANGED <<debounceTimer, saveDebounceTimer, engine, timers, stored, error, hist, used,
                   fin, fout>>

\* A faulty variant of Fail: the rejection is reported and isGenerating is
\* never reset.
FailStuck(err) ==
    /\ \E i \in 1..Len(requests) : requests' = RemoveAt(requests, i)
    /\ error' = IF err.hasMessage THEN err.message ELSE DefaultError
    /\ loading' = ""
    /\ lastEvent' = "fail"
    /\ outcome' = "none"
    /\ UNCHANGED <<surface, caret, thought, isGenerating, debounceTimer, saveDebounceTimer,
                   engine, applyingHighlights, timers, rafQueue, stored, sidebar, hist, used,
                   fin, fout>>

\* The request rejects with err: the .catch and .finally callbacks.
Fail(err) ==
    /\ \E i \in 1..Len(requests) : requests' = RemoveAt(requests, i)
    /\ error' = IF err.hasMessage THEN err.message ELSE DefaultError
    /\ isGenerating' = FALSE
    /\ loading' = ""
    /\ lastEvent' = "fail"
    /\ outcome' = "none"
    /\ UNCHANGED <<surface, caret, thought, debounceTimer, saveDebounceTimer, engine,
                   applyingHighlights, timers, rafQueue, stored, sidebar, hist, used, fin, fout>>

RECURSIVE RunFrame(_, _)
\* The callbacks of one animation frame, in the order they were queued:
\* [caret, flag].
RunFrame(q, acc) ==
    IF q = <<>> THEN acc
    ELSE RunFrame(Tail(q),
                  IF Head(q).kind = "unflag" THEN [acc EXCEPT !.flag = FALSE]
                  ELSE [acc EXCEPT !.caret = setCursorOffset(surface, acc.caret, Head(q).arg)])

\* The next animation frame runs every queued callback.
Frame ==
    /\ rafQueue # <<>>
    /\ LET out == RunFrame(rafQueue, [caret |-> caret, flag |-> applyingHighlights])
       IN  /\ caret' = out.caret
           /\ applyingHighlights' = out.flag
    /\ rafQueue' = <<>>
    /\ UNCHANGED <<surface, thought, isGenerating, debounceTimer, saveDebounceTimer, engine,
                   timers, requests, stored, sidebar, error, loading, lastEvent, outcome, hist, used,
                   fin, fout>>

\* initEngine after CreateWebWorkerMLCEngine resolves.
LoadOk ==
    /\ engine = "loading"
    /\ engine' = "ready"
    /\ LET saved == loadFromStorage(stored)
       IN  rafQueue' = IF saved.set /\ saved.content # ""
                       THEN Queue(rafQueue, SetCursor(saved.cursor)) ELSE rafQueue
    /\ loading' = ""
    /\ UNCHANGED <<surface, caret, thought, isGenerating, debounceTimer, saveDebounceTimer,
                   applyingHighlights, timers, requests, stored, sidebar, error, lastEvent, outcome,
                   hist, used, fin, fout>>

\* initEngine after CreateWebWorkerMLCEngine rejects.
LoadFail ==
    /\ engine = "loading"
    /\ engine' = "failed"
    /\ error' = "Failed to load model. Try again."
    /\ loading' = ""
    /\ UNCHANGED <<surface, caret, thought, isGenerating, debounceTimer, saveDebounceTimer,
                   applyingHighlights, timers, rafQueue, requests, stored, sidebar,
                   lastEvent, outcome, hist, used, fin, fout>>

\* The page after initUI and the synchronous part of initEngine.
Init ==
    /\ stored \in InitStored
    /\ LET saved == loadFromStorage(stored)
       IN  /\ surface = IF saved.set /\ saved.content # "" THEN <<TextNode(saved.content)>>
                        ELSE <<>>
           /\ rafQueue = IF saved.set /\ saved.content # "" THEN <<SetCursor(saved.cursor)>>
                         ELSE <<>>
    /\ caret = NoBP
    /\ thought = NoThought
    /\ isGenerating = FALSE
    /\ debounceTimer = 0
    /\ saveDebounceTimer = 0
    /\ applyingHighlights = FALSE
    /\ timers = {}
    /\ requests = <<>>
    /\ sidebar = EmptySidebar
    /\ \/ engine = "loading" /\ error = "" /\ loading = "Loading model..."
       \/ /\ engine = "nogpu"
          /\ error = "Clear requires a browser with WebGPU support (e.g. Chrome)."
          /\ loading = ""
    /\ lastEvent = "init"
    /\ outcome = "none"
    /\ hist = NoHist
    /\ used = [edits |-> 0, clicks |-> 0]
    /\ fin = <<>>
    /\ fout = <<>>

Next ==
    \/ \E t \in Texts : Edit(t)
    \/ KeyDown
    \/ DebounceFire
    \/ GenAIClick
    \/ SaveFire
    \/ \E raw \in Replies : Complete(raw)
    \/ \E err \in Errors : Fail(err)
    \/ Frame
    \/ LoadOk
    \/ LoadFail

Spec == Init /\ [][Next]_vars

(***************************************************************************)
(* The generation state the scheduler is in, read off the program's        *)
(* variables.                                                              *)
(***************************************************************************)
DebounceTimers == {x \in timers : x.kind = "debounce"}

TimerPending == DebounceTimers # {}

InFlight == isGenerating

Debouncing == ~isGenerating /\ TimerPending

Idle == ~isGenerating /\ ~TimerPending

GenState == IF isGenerating THEN "InFlight" ELSE IF TimerPending THEN "Debouncing" ELSE "Idle"

\* The steps of a behaviour, told apart by what they change.
FireStep == lastEvent' = "timer" /\ DebounceTimers' # DebounceTimers

ClickStep == lastEvent' = "click" /\ used'.clicks # used.clicks

TriggerStep == FireStep \/ ClickStep

EditStep == used'.edits # used.edits

CompleteStep == lastEvent' = "complete" /\ Len(requests') < Len(requests)

FailStep == lastEvent' = "fail" /\ Len(requests') < Len(requests)

ShortText == Len(Trim(innerText(surface))) < MIN_TEXT_LENGTH

UnflagQueued == \E i \in 1..Len(rafQueue) : rafQueue[i] = Unflag

(***************************************************************************)
(* Properties of the scheduler, checked under Spec.                        *)
(***************************************************************************)
\* C1: at most one inference request is outstanding in every reachable
\* state, and isGenerating is true exactly while it is; a trigger from the
\* timer or the button issues no request while isGenerating is true, and
\* isGenerating falls only when that request completes or fails.
C1_OneOutstanding ==
    /\ [](Len(requests) <= 1 /\ (isGenerating <=> Len(requests) = 1))
    /\ [][/\ isGenerating => Len(requests') <= Len(requests)
          /\ isGenerating /\ TriggerStep => requests' = requests /\ isGenerating'
          /\ isGenerating /\ ~isGenerating' => (CompleteStep \/ FailStep) /\ requests' = <<>>]_vars

\* C1 witness: a manual trigger has arrived while the request was in flight
\* and was a no-op.
C1_Witness == lastEvent = "click" /\ outcome = "busy" /\ isGenerating /\ Len(requests) = 1

\* C2 as claimed: right after any user text change the thought is none and
\* the highlights are removed, whatever state the change arrives in.
C2_ClearedOnEveryEdit ==
    lastEvent \in {"input", "inputIgnored"} => ~thought.set /\ ~HasHighlight(surface)

\* C3 as claimed: a debounce timer is never pending while a request is in
\* flight, and the state changes only by Idle->Debouncing,
\* Debouncing->InFlight, Debouncing->Idle and InFlight->Idle.
C3_ClaimedTransitions ==
    [][/\ ~(isGenerating /\ TimerPending)
       /\ GenState' # GenState =>
              <<GenState, GenState'>> \in { <<"Idle", "Debouncing">>, <<"Debouncing", "InFlight">>,
                                             <<"Debouncing", "Idle">>, <<"InFlight", "Idle">> }]_vars

\* The transitions of the generation state and the events that take them.
Allowed ==
    { <<"Idle", "Debouncing", "input">>,
      <<"Idle", "InFlight", "click">>,
      <<"Debouncing", "InFlight", "timer">>, <<"Debouncing", "InFlight", "click">>,
      <<"Debouncing", "Idle", "timer">>, <<"Debouncing", "Idle", "click">>,
      <<"Debouncing", "Idle", "keydown">>,
      <<"InFlight", "Idle", "complete">>, <<"InFlight", "Idle", "fail">>,
      <<"InFlight", "Debouncing", "complete">>, <<"InFlight", "Debouncing", "fail">> }

\* C3 as amended: the state is Idle, Debouncing or InFlight, InFlight being
\* a request outstanding (a debounce timer may be pending beside it), and
\* it changes only by Idle->Debouncing (text change), Idle->InFlight (manual
\* trigger), Debouncing->InFlight (timer fire or manual trigger),
\* Debouncing->Idle (a gated timer fire or manual trigger, or a keydown),
\* InFlight->Idle and InFlight->Debouncing (completion or failure, the
\* latter when a text change armed a timer during the request); a text
\* change that is not ignored always leaves a timer pending, so from Idle
\* it does lead to Debouncing.
C3_Transitions ==
    [][/\ GenState' # GenState => <<GenState, GenState', lastEvent'>> \in Allowed
       /\ EditStep /\ lastEvent' = "input" => TimerPending'
       /\ EditStep /\ lastEvent' = "input" /\ GenState = "Idle" => GenState' = "Debouncing"]_vars

\* C3 witness: a request has completed while a timer armed during it is
\* still pending.
C3_Witness == lastEvent = "complete" /\ ~isGenerating /\ TimerPending

\* C4 as claimed: while the trimmed text is shorter than MIN_TEXT_LENGTH a
\* timer fire or manual trigger issues no request, does not set
\* isGenerating, and leaves the state Idle.
C4_ShortStaysIdle ==
    [][TriggerStep /\ ShortText => UNCHANGED <<isGenerating, requests>> /\ Idle']_vars

\* C4 as amended: while the trimmed text is shorter than MIN_TEXT_LENGTH a
\* timer fire or manual trigger issues no request, does not change
\* isGenerating, and leaves no debounce timer pending; the state afterwards
\* is Idle unless a request issued earlier is still in flight.
C4_ShortNeverIssues ==
    [][TriggerStep /\ ShortText =>
           /\ UNCHANGED <<isGenerating, requests>>
           /\ ~TimerPending'
           /\ (~isGenerating => Idle')]_vars

\* C4 witness: the timer has fired on a text of 22 characters, 14 once
\* trimmed, and nothing was issued.
C4_Witness ==
    /\ lastEvent = "timer" /\ outcome = "short"
    /\ innerText(surface) = TextPadded /\ ~isGenerating /\ requests = <<>>

\* C5: when the request fails the error display gets the message (the
\* default one when the rejection carries none), isGenerating falls, the
\* thought and the surface keep their values, and a request is only ever
\* issued by a timer fire or a manual trigger.
C5_FailureNoRetry ==
    [][/\ FailStep =>
              /\ error' \in {e.message : e \in {x \in Errors : x.hasMessage}} \cup {DefaultError}
              /\ ~isGenerating' /\ requests' = <<>>
              /\ UNCHANGED <<thought, surface, sidebar>>
       /\ Len(requests') > Len(requests) => TriggerStep]_vars

\* C5 witness: a request issued while a thought was shown has failed.
C5_Witness ==
    lastEvent = "fail" /\ error = "Network error" /\ thought.set /\ ~isGenerating

\* C6: after a manual trigger no debounce timer is pending until the next
\* text change, so a text change followed by one manual trigger, with no
\* timer fire before it, leads to at most one request.
C6_ClickCancels ==
    /\ hist.clicks >= 1 => ~TimerPending /\ debounceTimer = 0
    /\ hist.clicks = 1 /\ hist.fires = 0 => hist.reqs <= 1
    /\ hist.cancelled => hist.fires = 0

\* C6 witness: a manual trigger has cancelled a pending timer and issued
\* the one request.
C6_Witness ==
    lastEvent = "click" /\ hist.cancelled /\ hist.clicks = 1 /\ hist.reqs = 1 /\ isGenerating

\* C7: at most one debounce timer is pending; right after a text change
\* it is the one just started; between two text changes the timer fires at
\* most once, and once it has fired none is pending.
C7_BurstCoalesced ==
    /\ Cardinality(DebounceTimers) <= 1
    /\ lastEvent = "input" =>
           DebounceTimers = {[id |-> debounceTimer, kind |-> "debounce"]} /\ hist.fires = 0
    /\ hist.fires <= 1
    /\ hist.fires = 1 => ~TimerPending

\* C7 witness: a text change has replaced a pending timer and the timer has
\* then fired once.
C7_Witness == hist.burst = 2 /\ lastEvent = "timer" /\ hist.fires = 1 /\ ~TimerPending

\* C8: a completion that changes the surface sets the guard flag; while the
\* flag is set its release is queued for the next frame and only that
\* frame resets it; a text change that arrives while it is set leaves the
\* thought, the timers and the requests as they are.
C8_GuardBrackets ==
    /\ [](applyingHighlights => UnflagQueued)
    /\ [][/\ CompleteStep /\ surface' # surface => applyingHighlights'
          /\ applyingHighlights /\ ~applyingHighlights' => UnflagQueued /\ rafQueue' = <<>>
          /\ applyingHighlights /\ EditStep =>
                 /\ lastEvent' = "inputIgnored"
                 /\ UNCHANGED <<thought, sidebar, timers, debounceTimer, saveDebounceTimer,
                                requests, isGenerating>>]_vars

\* C8 witness: a text change has arrived under the flag, after a pass that
\* wrapped a highlight, and was ignored.
C8_Witness ==
    lastEvent = "inputIgnored" /\ applyingHighlights /\ thought.set /\ HasHighlight(surface)

(***************************************************************************)
(* The renderer alone: applyHighlights then clearHighlights on a surface,   *)
(* a caret and a sentence list drawn at the start.                         *)
(***************************************************************************)
\* The scheduler's variables, parked while a pure function is checked.
schedVars ==
    <<surface, caret, thought, isGenerating, debounceTimer, saveDebounceTimer, engine,
      applyingHighlights, timers, rafQueue, requests, stored, sidebar, error, loading,
      lastEvent, outcome, hist, used>>

Parked ==
    /\ surface = <<>> /\ caret = NoBP /\ thought = NoThought /\ isGenerating = FALSE
    /\ debounceTimer = 0 /\ saveDebounceTimer = 0 /\ engine = "nogpu"
    /\ applyingHighlights = FALSE /\ timers = {} /\ rafQueue = <<>> /\ requests = <<>>
    /\ stored = NoStored /\ sidebar = EmptySidebar /\ error = "" /\ loading = ""
    /\ lastEvent = "init" /\ outcome = "none" /\ hist = NoHist
    /\ used = [edits |-> 0, clicks |-> 0]

\* Greatest caret offset drawn inside a Text node.
MaxCaret == 5

\* Surfaces the editor shows: one Text node, or one wrapped by an earlier
\* decoration pass.
DomSurfaces ==
    { <<TextNode(TextLong)>>, <<TextNode(TextPadded)>>, <<TextNode(TextMore)>>,
      <<SpanNode(<<TextNode(TextLong)>>)>> }

\* The places the user's caret may be in: nowhere, between the children of
\* #editor, inside a Text node.
DomCarets(kids) ==
    {NoBP} \cup {BP(<<>>, o) : o \in 0..Len(kids)}
    \cup UNION { {BP(TextNodes(kids)[n].path, o) :
                      o \in 0..Min(MaxCaret, Len(TextNodes(kids)[n].data))} :
                 n \in 1..Len(TextNodes(kids)) }

DomSentences == { <<"I">>, <<"I felt relieved.">>, <<"I walked home.", "relieved">>, <<"Nothing here">> }

InitDom ==
    /\ Parked
    /\ \E kids \in DomSurfaces : \E c \in DomCarets(kids) : \E ss \in DomSentences :
           /\ fin = [kids |-> kids, caret |-> c, sentences |-> ss]
           /\ fout = [stage |-> "plain", kids |-> kids, caret |-> c]

\* applyHighlights(editor, sentences)
Decorate ==
    /\ fout.stage = "plain"
    /\ fout' = [stage |-> "decorated"]
               @@ applyHighlights([kids |-> fout.kids, caret |-> fout.caret], fin.sentences)
    /\ UNCHANGED <<schedVars, fin>>

\* clearHighlights(editor)
Clear ==
    /\ fout.stage = "decorated"
    /\ fout' = [stage |-> "cleared"]
               @@ clearHighlights([kids |-> fout.kids, caret |-> fout.caret])
    /\ UNCHANGED <<schedVars, fin>>

NextDom == Decorate \/ Clear

SpecDom == InitDom /\ [][NextDom]_vars

\* C9 as claimed: applyHighlights followed by clearHighlights leaves the
\* plain text and the caret's character offset as they were before the
\* decoration, for every surface, caret and sentence list.
C9_RoundTrip ==
    fout.stage = "cleared" =>
        /\ innerText(fout.kids) = innerText(fin.kids)
        /\ getCursorOffset(fout.kids, fout.caret) = getCursorOffset(fin.kids, fin.caret)

RECURSIVE FirstLongWord(_)
\* The first word of at least 3 characters, its trailing punctuation
\* stripped; "" when there is none.
FirstLongWord(words) ==
    IF words = <<>> THEN ""
    ELSE IF Len(Head(words)) > 2 /\ Len(DropTrailingPunct(Head(words))) >= 3
         THEN DropTrailingPunct(Head(words))
         ELSE FirstLongWord(Tail(words))

\* The anchor of the degenerate-input policy: the first literal occurrence
\* in the raw text of the first long word of the first fragment.
PolicyAnchor(text, sentences) ==
    LET w == FirstLongWord(Words(Trim(sentences[1])))
    IN  IF w # "" /\ IndexOf(text, w) >= 0
        THEN << <<IndexOf(text, w), IndexOf(text, w) + Len(w)>> >>
        ELSE <<>>

Unanswered ==
    /\ hist.burst >= 1
    /\ Len(getEditorText) >= MIN_TEXT_LENGTH
    /\ hist.clicks = 0
    /\ hist.reqs = 0
    /\ engine = "ready"
    /\ ~isGenerating

\* C15 as claimed: every edit is eventually answered.  triggerThought is
\* called by the debounce timer and by the manual trigger alone, so an edit
\* that is still unanswered once the engine is loaded and nothing is in
\* flight can be answered without a further user event only if its debounce
\* timer is still pending: in a state where it is not, the run in which the
\* user does nothing more never issues the request.
C15_EveryEditAnswered == Unanswered => TimerPending

\* C16 as claimed: the displayed thought is never stale.  The thought a
\* completion installs answers the request it settles, so at that moment
\* the document's text is the text that request carried; and while a
\* thought stays displayed the text does not change.
C16_ThoughtNeverStale ==
    [][ /\ CompleteStep /\ thought'.set
            => \E i \in 1..Len(requests) :
                   /\ requests' = RemoveAt(requests, i)
                   /\ requests[i] = getEditorText
        /\ ~CompleteStep /\ thought'.set
            => thought.set /\ innerText(surface') = innerText(surface) ]_vars

(***************************************************************************)
(* The merge step of findRanges alone, on a list of ranges drawn at the    *)
(* start.                                                                  *)
(***************************************************************************)
\* Longest list of ranges drawn.
MaxRanges == 3

\* Greatest end of a range drawn.
MaxPos == 4

\* [5,10) and [8,15)
ScenarioRanges == << <<5, 10>>, <<8, 15>> >>

RangesDrawn == {r \in (0..MaxPos) \X (0..MaxPos) : r[1] < r[2]}

RangeLists == UNION {[1..n -> RangesDrawn] : n \in 0..MaxRanges} \cup {ScenarioRanges}

InitMerge ==
    /\ Parked
    /\ fin \in RangeLists
    /\ fout = <<>>

\* The sort and the merge loop of findRanges on the located ranges.
Merge ==
    /\ fout = <<>>
    /\ fout' = <<mergeRanges(fin)>>
    /\ UNCHANGED <<schedVars, fin>>

\* The same on its own result.
MergeAgain ==
    /\ Len(fout) = 1
    /\ fout' = Append(fout, mergeRanges(fout[1]))
    /\ UNCHANGED <<schedVars, fin>>

NextMerge == Merge \/ MergeAgain

SpecMerge == InitMerge /\ [][NextMerge]_vars

\* The character positions a list of ranges covers.
Covered(ranges) == UNION {ranges[i][1]..(ranges[i][2] - 1) : i \in 1..Len(ranges)}

\* C10: the merged ranges are ascending by start, each starts after the end
\* of the one before (ranges with next.start <= current.end are coalesced),
\* they cover the positions of the input and no other, [5,10) and [8,15)
\* give [5,15), and merging the result again changes nothing.
C10_MergeSortedDisjointIdempotent ==
    /\ Len(fout) >= 1 =>
           /\ \A i \in 1..(Len(fout[1]) - 1) :
                  fout[1][i][1] < fout[1][i + 1][1] /\ fout[1][i][2] < fout[1][i + 1][1]
           /\ \A i \in 1..Len(fout[1]) : fout[1][i][1] < fout[1][i][2]
           /\ Covered(fout[1]) = Covered(fin)
           /\ (fin = ScenarioRanges => fout[1] = << <<5, 15>> >>)
    /\ Len(fout) = 2 => fout[2] = fout[1]

\* C10 witness: [5,10) and [8,15) have been merged, and merged again.
C10_Witness == Len(fout) = 2 /\ fin = ScenarioRanges /\ fout[1] = << <<5, 15>> >>

(***************************************************************************)
(* The sentence locator alone, on a text and a fragment of it drawn at the *)
(* start.                                                                  *)
(***************************************************************************)
\* Longest text drawn.
MaxTextLen == 5

LocateAlphabet == {"a", "b", " ", "\n"}

RECURSIVE StringsUpTo(_)
StringsUpTo(n) ==
    IF n = 0 THEN {""}
    ELSE StringsUpTo(n - 1)
         \cup {s \o c : s \in {x \in StringsUpTo(n - 1) : Len(x) = n - 1}, c \in LocateAlphabet}

LocateTexts == StringsUpTo(MaxTextLen)

RECURSIVE Spread(_)
\* The fragment with every space turned into a space and a line break.
Spread(s) ==
    IF s = "" THEN ""
    ELSE (IF At(s, 0) = " " THEN " \n" ELSE At(s, 0)) \o Spread(Slice(s, 1, Len(s)))

\* The non-blank contiguous substrings of the whitespace-collapsed text, as
\* they are, with their whitespace spread, and padded with whitespace.
FragmentsOf(text) ==
    LET n == buildNormalizedMap(text).normalized
        subs == {Slice(n, a, b) : a \in 0..Len(n), b \in 0..Len(n)}
        plain == {f \in subs : Trim(f) # ""}
    IN  plain \cup {Spread(f) : f \in plain} \cup {"\n " \o f \o "  " : f \in plain}

InitLocate ==
    /\ Parked
    /\ \E t \in LocateTexts : \E f \in FragmentsOf(t) : fin = [text |-> t, fragment |-> f]
    /\ fout = [done |-> FALSE, range |-> NoRange]

\* findSentenceRange(text, fragment)
Locate ==
    /\ ~fout.done
    /\ fout' = [done |-> TRUE, range |-> findSentenceRange(fin.text, fin.fragment)]
    /\ UNCHANGED <<schedVars, fin>>

NextLocate == Locate

SpecLocate == InitLocate /\ [][NextLocate]_vars

\* C11: for a text and a non-blank fragment that is a contiguous substring
\* of the whitespace-collapsed text, findSentenceRange returns a range with
\* 0 <= start < end <= Len(text) whose slice, once normalized, equals the
\* normalized fragment, and no such slice that starts on a character of the
\* fragment starts further left.
C11_LocatesLeftmostSubstring ==
    fout.done =>
        /\ fout.range # NoRange
        /\ 0 <= fout.range[1] /\ fout.range[1] < fout.range[2]
        /\ fout.range[2] <= Len(fin.text)
        /\ normalizeForMatch(Slice(fin.text, fout.range[1], fout.range[2]))
               = normalizeForMatch(fin.fragment)
        /\ \A s \in 0..(fout.range[1] - 1) : \A e \in (s + 1)..Len(fin.text) :
               normalizeForMatch(Slice(fin.text, s, e)) = normalizeForMatch(fin.fragment)
                   => IsSpace(At(fin.text, s))

\* C11 witness: a fragment with a space, given with a line break after
\* the space, has been located across a single line break, at the first
\* of its two overlapping occurrences.
C11_Witness ==
    /\ fout.done /\ fin.text = "a\na a" /\ fin.fragment = "a \na"
    /\ fout.range = <<0, 3>>

(***************************************************************************)
(* The response parser alone, on model output made of JSON objects drawn   *)
(* at the start.  An object is drawn as its "question" and "sentences"     *)
(* members: has tells whether the member is there, json is its value as    *)
(* written, want what the parser is to keep of it.                         *)
(***************************************************************************)
\* Most objects in one model output.
MaxObjects == 2

Absent == [has |-> FALSE, json |-> "", want |-> ""]

QuestionMembers ==
    { Absent,
      [has |-> TRUE, json |-> "\"Why?\"", want |-> "Why?"],
      [has |-> TRUE, json |-> "\" So? \"", want |-> "So?"],
      [has |-> TRUE, json |-> "\":}\"", want |-> ":}"],
      [has |-> TRUE, json |-> "\"\"", want |-> ""],
      [has |-> TRUE, json |-> "5", want |-> ""] }

NoSentences == [has |-> FALSE, json |-> "", want |-> <<>>]

SentencesMembers ==
    { NoSentences,
      [has |-> TRUE, json |-> "[\"I\"]", want |-> <<"I">>],
      [has |-> TRUE, json |-> "[\" I \",\"\",7,\"x\"]", want |-> <<"I", "x">>],
      [has |-> TRUE, json |-> "\"I\"", want |-> <<>>] }

ObjectsDrawn == [q : QuestionMembers, s : SentencesMembers]

\* What lies between two objects of the output.
Separators == {"", "\n"}

\* The object as the model writes it.
ObjectText(o) ==
    "{" \o (IF o.q.has THEN "\"question\":" \o o.q.json ELSE "")
        \o (IF o.q.has /\ o.s.has THEN "," ELSE "")
        \o (IF o.s.has THEN "\"sentences\":" \o o.s.json ELSE "")
        \o "}"

RECURSIVE OutputText(_, _)
OutputText(objs, sep) ==
    IF objs = <<>> THEN ""
    ELSE IF Len(objs) = 1 THEN ObjectText(objs[1])
    ELSE ObjectText(objs[1]) \o sep \o OutputText(Tail(objs), sep)

RECURSIVE LastQuestion(_)
\* The question of the last object that has a non-empty string question.
LastQuestion(objs) ==
    IF objs = <<>> THEN ""
    ELSE IF objs[Len(objs)].q.want # "" THEN objs[Len(objs)].q.want
    ELSE LastQuestion(SubSeq(objs, 1, Len(objs) - 1))

RECURSIVE AllSentences(_)
\* The non-empty string sentences of all objects, in order of appearance.
AllSentences(objs) ==
    IF objs = <<>> THEN <<>> ELSE objs[1].s.want \o AllSentences(Tail(objs))

InitParse ==
    /\ Parked
    /\ \E n \in 1..MaxObjects : \E objs \in [1..n -> ObjectsDrawn] : \E sep \in Separators :
           fin = [objs |-> objs, sep |-> sep]
    /\ fout = [done |-> FALSE, result |-> [question |-> "", sentences |-> <<>>]]

\* parseThoughtResponse(raw)
Parse ==
    /\ ~fout.done
    /\ fout' = [done |-> TRUE, result |-> parseThoughtResponse(OutputText(fin.objs, fin.sep))]
    /\ UNCHANGED <<schedVars, fin>>

NextParse == Parse

SpecParse == InitParse /\ [][NextParse]_vars

\* C12 as claimed: for output made of several concatenated JSON objects the
\* question is the trimmed question of the last object with a non-empty
\* string question and the sentences are the trimmed non-empty string
\* sentences of all objects in order; a member of the wrong type is
\* ignored for that field only.
C12_LastQuestionAllSentences ==
    fout.done /\ Len(fin.objs) >= 2 =>
        fout.result = [question |-> LastQuestion(fin.objs), sentences |-> AllSentences(fin.objs)]

(***************************************************************************)
(* The response parser on output that holds no question and no sentences:  *)
(* free text, with or without braces.                                      *)
(***************************************************************************)
\* Longest free text drawn.
MaxRawLen == 4

FreeAlphabet == {"a", " ", "{", "}"}

RECURSIVE FreeStrings(_)
FreeStrings(n) ==
    IF n = 0 THEN {""}
    ELSE FreeStrings(n - 1)
         \cup {s \o c : s \in {x \in FreeStrings(n - 1) : Len(x) = n - 1}, c \in FreeAlphabet}

\* Every string of up to MaxRawLen characters, and an aside followed by an
\* object whose question is no string.
RawsDrawn == FreeStrings(MaxRawLen) \cup {"Note {\"question\":5}"}

HasOpeningBrace(s) == \E k \in 0..(Len(s) - 1) : At(s, k) = "{"

InitFreeText ==
    /\ Parked
    /\ fin \in RawsDrawn
    /\ fout = [done |-> FALSE, result |-> [question |-> "", sentences |-> <<>>]]

\* parseThoughtResponse(raw)
ParseFreeText ==
    /\ ~fout.done
    /\ fout' = [done |-> TRUE, result |-> parseThoughtResponse(fin)]
    /\ UNCHANGED <<schedVars, fin>>

NextFreeText == ParseFreeText

SpecFreeText == InitFreeText /\ [][NextFreeText]_vars

\* C13 as claimed: when nothing in the output yields a question or
\* sentences, the result is the trimmed raw string as the question, with no
\* sentences, if the raw string holds no opening brace, and an empty
\* question otherwise, so that raw JSON is never the question.
C13_FreeTextOnlyWithoutBrace ==
    fout.done =>
        /\ fout.result.sentences = <<>>
        /\ fout.result.question = IF HasOpeningBrace(fin) THEN "" ELSE Trim(fin)

=============================================================================
